---------------------------- MODULE Spec2Model ----------------------------
(***************************************************************************)
(* A model of stock-checker (src/main.rs): the report pipeline of main and *)
(* the pure functions calc_returns, get_price_range and print_quotes.      *)
(*                                                                         *)
(* Data conventions                                                        *)
(*  - Option<T> is a sequence of length at most one: <<>> is None and      *)
(*    <<x>> is Some(x).                                                    *)
(*  - Result<Vec<T>> of a request is [tag, val]: tag is "pending" while    *)
(*    the future has not completed, then "err" or "ok".                    *)
(*  - A money amount (rust_decimal::Decimal) is an integer number of       *)
(*    currency units.                                                      *)
(*  - An f64 is [k, n, d]: k = "fin" is the rational n/d in lowest terms   *)
(*    with d > 0; k = "inf", "ninf", "nan" are the IEEE specials (n = 0,   *)
(*    d = 1 then).  Binary rounding of finite values is not modelled.      *)
(*  - Text is a TLA+ string; a line of output is [sec, text, rows].        *)
(***************************************************************************)
EXTENDS Integers, Sequences, FiniteSets, TLC

VARIABLES
    quotes_res,     \* result of get_quotes(&ticker)
    earnings_res,   \* result of get_earnings_dates(&ticker)
    fi,             \* result of ticker.fast_info()
    cf,             \* result of ticker.cashflow(None)
    pc,             \* position of main
    quotes,         \* main's local: Vec<Candle>
    earnings,       \* main's local: Option<Vec<DateTime>>
    returns,        \* main's local: Vec<f64>
    range,          \* Option<(PriceRange, PriceRange)> of get_price_range
    out,            \* lines written to standard output, in order
    status          \* "running", "ok" (exit 0), "err" (main returned Err), "panic"

vars == <<quotes_res, earnings_res, fi, cf, pc, quotes, earnings, returns,
          range, out, status>>

----------------------------------------------------------------------------
(* Bounds of the model *)

MaxBars == 3

MaxAmount == 2

----------------------------------------------------------------------------
(* f64 arithmetic *)

Abs(x) == IF x < 0 THEN -x ELSE x

RECURSIVE GCD(_, _)
GCD(a, b) == IF b = 0 THEN a ELSE GCD(b, a % b)

Fin(n, d) ==
    LET g == GCD(Abs(n), d)
    IN  [k |-> "fin", n |-> n \div g, d |-> d \div g]

INFINITY == [k |-> "inf", n |-> 0, d |-> 1]

NEG_INFINITY == [k |-> "ninf", n |-> 0, d |-> 1]

NAN == [k |-> "nan", n |-> 0, d |-> 1]

\* yfinance_rs::core::conversions::money_to_f64: the amount as an f64
money_to_f64(m) == Fin(m, 1)

\* a - b, of finite operands (closes converted by money_to_f64)
FSub(a, b) == Fin(a.n * b.d - b.n * a.d, a.d * b.d)

\* a / b, of finite operands: IEEE division, so x/0 is an infinity or NaN
FDiv(a, b) ==
    IF b.n = 0
    THEN IF a.n = 0 THEN NAN ELSE IF a.n > 0 THEN INFINITY ELSE NEG_INFINITY
    ELSE IF b.n > 0 THEN Fin(a.n * b.d, a.d * b.n)
         ELSE Fin(-(a.n * b.d), a.d * (-b.n))

\* a * c for a finite c > 0
FMul(a, c) == IF a.k = "fin" THEN Fin(a.n * c.n, a.d * c.d) ELSE a

\* a < b (false when either is NaN)
FLt(a, b) ==
    CASE a.k = "nan" \/ b.k = "nan" -> FALSE
      [] a.k = "ninf" -> b.k # "ninf"
      [] a.k = "inf" -> FALSE
      [] b.k = "inf" -> TRUE
      [] b.k = "ninf" -> FALSE
      [] OTHER -> a.n * b.d < b.n * a.d

FLe(a, b) ==
    /\ a.k # "nan"
    /\ b.k # "nan"
    /\ ~FLt(b, a)

\* f64::min and f64::max: the other operand when one is NaN
FMin(a, b) == IF a.k = "nan" THEN b ELSE IF b.k = "nan" THEN a
              ELSE IF FLt(b, a) THEN b ELSE a

FMax(a, b) == IF a.k = "nan" THEN b ELSE IF b.k = "nan" THEN a
              ELSE IF FLt(a, b) THEN b ELSE a

Zero == Fin(0, 1)

Hundred == Fin(100, 1)

----------------------------------------------------------------------------
(* Formatting *)

TwoDigits(h) == IF h < 10 THEN "0" \o ToString(h) ELSE ToString(h)

\* |n|/d in hundredths, rounded to nearest, ties to even
RoundHundredths(n, d) ==
    LET q == (Abs(n) * 100) \div d
        r == (Abs(n) * 100) % d
    IN  IF 2 * r > d \/ (2 * r = d /\ q % 2 = 1) THEN q + 1 ELSE q

\* format!("{:.2}", x) of an f64
Fmt2(x) ==
    CASE x.k = "inf" -> "inf"
      [] x.k = "ninf" -> "-inf"
      [] x.k = "nan" -> "NaN"
      [] OTHER ->
           LET h == RoundHundredths(x.n, x.d)
           IN  (IF x.n < 0 THEN "-" ELSE "")
                 \o ToString(h \div 100) \o "." \o TwoDigits(h % 100)

\* format!("{:.2}", m.amount()) of a Decimal holding a whole amount
FmtAmount(m) == (IF m < 0 THEN "-" ELSE "") \o ToString(Abs(m)) \o ".00"

ThreeDigits(h) == IF h < 10 THEN "00" \o ToString(h)
                  ELSE IF h < 100 THEN "0" \o ToString(h) ELSE ToString(h)

\* v.to_formatted_string(&Locale::en): groups of three digits, separated by ","
RECURSIVE to_formatted_string(_)
to_formatted_string(v) ==
    IF v < 1000 THEN ToString(v)
    ELSE to_formatted_string(v \div 1000) \o "," \o ThreeDigits(v % 1000)

\* q.ts.date_naive().to_string(): bar i of the history is day i of a month
date_naive(ts) == "2024-01-" \o TwoDigits(ts)

----------------------------------------------------------------------------
(* Candles *)

Amounts == 0 .. MaxAmount

Volumes == {<<>>, <<1500>>}

Candle(ts, open, high, low, close, volume) ==
    [ts |-> ts, open |-> open, high |-> high, low |-> low, close |-> close,
     volume |-> volume]

\* a history: bars in timestamp order, no two of the same day
WithTs(s) == [i \in 1 .. Len(s) |-> [s[i] EXCEPT !.ts = i]]

RECURSIVE SeqsUpTo(_, _)
SeqsUpTo(S, n) ==
    IF n = 0 THEN {<<>>}
    ELSE LET shorter == SeqsUpTo(S, n - 1)
         IN  shorter \cup {Append(s, x) : s \in {t \in shorter : Len(t) = n - 1}, x \in S}

----------------------------------------------------------------------------
(* calc_returns *)

\* a slip in the loop body: the difference divided by the current close
ReturnAt_DivCur(qs, i) ==
    LET cur == money_to_f64(qs[i + 1].close)
        prev == money_to_f64(qs[i].close)
    IN  FDiv(FSub(cur, prev), cur)

\* the body of the loop for index i (0-based in the source, i >= 1)
ReturnAt(qs, i) ==
    LET cur == money_to_f64(qs[i + 1].close)
        prev == money_to_f64(qs[i].close)
    IN  FDiv(FSub(cur, prev), prev)

\* for i in 1..quotes.len(): empty, also when quotes.len() is 0 or 1
calc_returns(qs) == [i \in 1 .. (IF Len(qs) = 0 THEN 0 ELSE Len(qs) - 1) |-> ReturnAt(qs, i)]

----------------------------------------------------------------------------
(* get_price_range *)

PriceRange(low, high) == [low |-> low, high |-> high]

\* a slip in the loop body: the closing range fed with the day's low and high
RangeStep_ClosingFromLowHigh(acc, q) ==
    LET low == money_to_f64(q.low)
        high == money_to_f64(q.high)
    IN  [intraday |-> PriceRange(FMin(acc.intraday.low, low),
                                 FMax(acc.intraday.high, high)),
         closing |-> PriceRange(FMin(acc.closing.low, low),
                                FMax(acc.closing.high, high))]

\* the loop body for one bar q
RangeStep(acc, q) ==
    LET low == money_to_f64(q.low)
        high == money_to_f64(q.high)
        close == money_to_f64(q.close)
    IN  [intraday |-> PriceRange(FMin(acc.intraday.low, low),
                                 FMax(acc.intraday.high, high)),
         closing |-> PriceRange(FMin(acc.closing.low, close),
                                FMax(acc.closing.high, close))]

\* the loop over the bars 1..i, from the initial infinities
RECURSIVE RangeFold(_, _)
RangeFold(qs, i) ==
    IF i = 0
    THEN [intraday |-> PriceRange(INFINITY, NEG_INFINITY),
          closing |-> PriceRange(INFINITY, NEG_INFINITY)]
    ELSE RangeStep(RangeFold(qs, i - 1), qs[i])

get_price_range(qs) == IF Len(qs) = 0 THEN <<>> ELSE <<RangeFold(qs, Len(qs))>>

----------------------------------------------------------------------------
(* Output lines *)

Line(sec, text) == [sec |-> sec, text |-> text, rows |-> <<>>]

Table(sec, rows) == [sec |-> sec, text |-> "", rows |-> rows]

\* what a called function did: whether it panicked, and the lines it wrote
Wrote(lines) == [panic |-> FALSE, lines |-> lines]

Panicked == [panic |-> TRUE, lines |-> <<>>]

----------------------------------------------------------------------------
(* print_quotes *)

QuoteHeader == <<"Date", "Volume", "Open", "High", "Low", "Close", "Return %">>

\* a slip in the formatting: no leading space for a value that is not negative
RetFmt_NoSpace(rets, i) ==
    IF i > 1 THEN Fmt2(FMul(rets[i - 1], Hundred)) ELSE ""

\* the return cell of bar i (1-based; idx = i - 1 in the source), given that
\* returns[idx - 1] is in bounds
RetFmt(rets, i) ==
    IF i > 1
    THEN LET ret == FMul(rets[i - 1], Hundred)
         IN  IF FLt(ret, Zero) THEN Fmt2(ret) ELSE " " \o Fmt2(ret)
    ELSE ""

\* a slip in the loop: volume.unwrap_or_default() in place of unwrap()
QuoteRecord_DefaultVolume(qs, rets, i) ==
    IF i > 1 /\ i - 1 > Len(rets)
    THEN [panic |-> TRUE, row |-> <<>>]
    ELSE [panic |-> FALSE,
          row |-> <<date_naive(qs[i].ts),
                    to_formatted_string(IF qs[i].volume = <<>> THEN 0 ELSE qs[i].volume[1]),
                    FmtAmount(qs[i].open),
                    FmtAmount(qs[i].high),
                    FmtAmount(qs[i].low),
                    FmtAmount(qs[i].close),
                    RetFmt(rets, i)>>]

\* one iteration of the loop: the record pushed for bar i, or a panic
\* (returns[idx - 1] out of bounds, or volume.unwrap() of None)
QuoteRecord(qs, rets, i) ==
    IF (i > 1 /\ i - 1 > Len(rets)) \/ qs[i].volume = <<>>
    THEN [panic |-> TRUE, row |-> <<>>]
    ELSE [panic |-> FALSE,
          row |-> <<date_naive(qs[i].ts),
                    to_formatted_string(qs[i].volume[1]),
                    FmtAmount(qs[i].open),
                    FmtAmount(qs[i].high),
                    FmtAmount(qs[i].low),
                    FmtAmount(qs[i].close),
                    RetFmt(rets, i)>>]

\* the loop over the first n bars: the records pushed, or a panic
RECURSIVE QuoteRecords(_, _, _)
QuoteRecords(qs, rets, n) ==
    IF n = 0 THEN [panic |-> FALSE, rows |-> <<>>]
    ELSE LET before == QuoteRecords(qs, rets, n - 1)
         IN  IF before.panic THEN before
             ELSE LET rec == QuoteRecord(qs, rets, n)
                  IN  IF rec.panic THEN [panic |-> TRUE, rows |-> <<>>]
                      ELSE [panic |-> FALSE, rows |-> Append(before.rows, rec.row)]

print_quotes(qs, rets) ==
    IF Len(qs) = 0 THEN Wrote(<<Line("quotes", "No quotes to display")>>)
    ELSE LET built == QuoteRecords(qs, rets, Len(qs))
         IN  IF built.panic THEN Panicked
             ELSE Wrote(<<Table("quotes", <<QuoteHeader>> \o built.rows)>>)

----------------------------------------------------------------------------
(* display_plot *)

\* the points handed to the chart: (index, close)
PlotPoints(qs) == [i \in 1 .. Len(qs) |-> <<ToString(i - 1), FmtAmount(qs[i].close)>>]

display_plot(qs) ==
    IF Len(qs) = 0 THEN Wrote(<<Line("chart", "No data to plot")>>)
    ELSE Wrote(<<Table("chart", PlotPoints(qs))>>)

----------------------------------------------------------------------------
(* print_cashflow *)

CashflowHeader == <<"Year End", "Free Cash Flow">>

RECURSIVE CashflowRecords(_, _)
CashflowRecords(rows, n) ==
    IF n = 0 THEN <<>>
    ELSE LET item == rows[n]
             before == CashflowRecords(rows, n - 1)
         IN  IF item.period # <<>> /\ item.fcf # <<>>
             THEN Append(before, <<ToString(item.period[1]) \o "-12-31",
                                   to_formatted_string(item.fcf[1])>>)
             ELSE before

print_cashflow(rows) ==
    IF Len(rows) = 0 THEN Wrote(<<>>)
    ELSE Wrote(<<Line("cashflow", ""),
                 Table("cashflow", <<CashflowHeader>> \o CashflowRecords(rows, Len(rows)))>>)

----------------------------------------------------------------------------
(* The sections of main between the quote table and the cash-flow table *)

\* Decimal division: panics on a zero divisor
DecimalDivides(divisor) == divisor # 0

\* a slip: the division without the guard on a zero first close
pct_change_Unguarded(qs) ==
    IF Len(qs) >= 2
    THEN LET initial_close == qs[1].close
         IN  IF DecimalDivides(initial_close)
             THEN Wrote(<<Line("pct", "Pct change over period")>>)
             ELSE Panicked
    ELSE Wrote(<<>>)

\* lines 60-68; the digits of the quotient are rendered by rust_decimal and
\* are not modelled
pct_change(qs) ==
    IF Len(qs) >= 2
    THEN LET initial_close == qs[1].close
         IN  IF initial_close # 0
             THEN IF DecimalDivides(initial_close)
                  THEN Wrote(<<Line("pct", "Pct change over period")>>)
                  ELSE Panicked
             ELSE Wrote(<<>>)
    ELSE Wrote(<<>>)

\* a slip: the std dev block entered with 2 bars
volatility_TwoBars(qs, rets) ==
    IF Len(qs) >= 2
    THEN Wrote(<<Line("std", "Std dev of returns"),
                 Line("vol", "Annualized volatility")>>)
    ELSE Wrote(<<>>)

\* lines 70-76; the digits of the square root are not modelled
volatility(qs, rets) ==
    IF Len(qs) >= 3
    THEN Wrote(<<Line("std", "Std dev of returns"),
                 Line("vol", "Annualized volatility")>>)
    ELSE Wrote(<<>>)

\* lines 78-87
price_range_lines(r) ==
    IF r # <<>>
    THEN Wrote(<<Line("intraday", "Intraday low and high: "
                        \o Fmt2(r[1].intraday.low) \o " to " \o Fmt2(r[1].intraday.high)),
                 Line("closing", "Closing low and high:  "
                        \o Fmt2(r[1].closing.low) \o " to " \o Fmt2(r[1].closing.high))>>)
    ELSE Wrote(<<>>)

\* er[0].format("%Y-%m-%d %H:%M"): a date is a day of a month, at 21:00
format_date(day) == "2024-02-" \o TwoDigits(day) \o " 21:00"

\* lines 89-93
earnings_line(e) ==
    IF e # <<>>
    THEN IF Len(e[1]) # 0
         THEN Wrote(<<Line("earnings", "Earnings date: " \o format_date(e[1][1]))>>)
         ELSE Wrote(<<>>)
    ELSE Wrote(<<>>)

\* lines 49-51
header_line(info) ==
    IF info.name # <<>> THEN Wrote(<<Line("header", info.name[1] \o " (MSFT)")>>)
    ELSE Wrote(<<>>)

----------------------------------------------------------------------------
(* What the provider can answer *)

Pending == [tag |-> "pending", val |-> <<>>]

Err == [tag |-> "err", val |-> <<>>]

Ok(v) == [tag |-> "ok", val |-> v]

\* the bars of a run: any close and any volume; the day's low is its close
\* and its high one unit above
RunCandles == {Candle(0, c, c + 1, c, c, v) : c \in Amounts, v \in Volumes}

QuotesAnswers == {Err} \cup {Ok(WithTs(s)) : s \in SeqsUpTo(RunCandles, MaxBars)}

EarningsAnswers == {Err, Ok(<<>>), Ok(<<7, 3>>)}

FastInfo(name) == [name |-> name]

FastInfoAnswers == {Err, Ok(<<FastInfo(<<>>)>>), Ok(<<FastInfo(<<"Microsoft">>)>>)}

CashflowRow(period, fcf) == [period |-> period, fcf |-> fcf]

CashflowAnswers ==
    {Err, Ok(<<>>),
     Ok(<<CashflowRow(<<2023>>, <<59475000>>), CashflowRow(<<2022>>, <<>>),
          CashflowRow(<<>>, <<65149000>>)>>)}

----------------------------------------------------------------------------
(* main *)

Init ==
    /\ quotes_res = Pending
    /\ earnings_res = Pending
    /\ fi = Pending
    /\ cf = Pending
    /\ pc = "join"
    /\ quotes = <<>>
    /\ earnings = <<>>
    /\ returns = <<>>
    /\ range = <<>>
    /\ out = <<>>
    /\ status = "running"

\* lines 38-43: the four futures of tokio::join! complete in any order
CompleteQuotes ==
    /\ pc = "join"
    /\ quotes_res.tag = "pending"
    /\ \E r \in QuotesAnswers : quotes_res' = r
    /\ UNCHANGED <<earnings_res, fi, cf, pc, quotes, earnings, returns, range, out, status>>

CompleteEarnings ==
    /\ pc = "join"
    /\ earnings_res.tag = "pending"
    /\ \E r \in EarningsAnswers : earnings_res' = r
    /\ UNCHANGED <<quotes_res, fi, cf, pc, quotes, earnings, returns, range, out, status>>

CompleteFastInfo ==
    /\ pc = "join"
    /\ fi.tag = "pending"
    /\ \E r \in FastInfoAnswers : fi' = r
    /\ UNCHANGED <<quotes_res, earnings_res, cf, pc, quotes, earnings, returns, range, out, status>>

CompleteCashflow ==
    /\ pc = "join"
    /\ cf.tag = "pending"
    /\ \E r \in CashflowAnswers : cf' = r
    /\ UNCHANGED <<quotes_res, earnings_res, fi, pc, quotes, earnings, returns, range, out, status>>

\* a slip: first-to-complete (select) in place of join
JoinReady_Any(q, e, f, c) ==
    \/ q.tag # "pending"
    \/ e.tag # "pending"
    \/ f.tag # "pending"
    \/ c.tag # "pending"

\* tokio::join! is ready when every one of its futures has completed
JoinReady(q, e, f, c) ==
    /\ q.tag # "pending"
    /\ e.tag # "pending"
    /\ f.tag # "pending"
    /\ c.tag # "pending"

Join ==
    /\ pc = "join"
    /\ JoinReady(quotes_res, earnings_res, fi, cf)
    /\ pc' = "unwrap"
    /\ UNCHANGED <<quotes_res, earnings_res, fi, cf, quotes, earnings, returns, range, out, status>>

\* a slip: cf.ok() in place of cf?, a failed cash-flow request read as no rows
Unwrapped_CfOptional(q, e, f, c) ==
    IF f.tag # "ok" THEN [ok |-> FALSE, earnings |-> <<>>]
    ELSE IF q.tag # "ok" THEN [ok |-> FALSE, earnings |-> <<>>]
    ELSE [ok |-> TRUE, earnings |-> IF e.tag = "ok" THEN <<e.val>> ELSE <<>>]

\* a slip: earnings_res? in place of earnings_res.ok()
Unwrapped_EarningsFatal(q, e, f, c) ==
    IF f.tag # "ok" \/ q.tag # "ok" \/ e.tag # "ok" \/ c.tag # "ok"
    THEN [ok |-> FALSE, earnings |-> <<>>]
    ELSE [ok |-> TRUE, earnings |-> <<e.val>>]

\* lines 44-47: fi?, quotes_res?, earnings_res.ok(), cf?
Unwrapped(q, e, f, c) ==
    IF f.tag # "ok" THEN [ok |-> FALSE, earnings |-> <<>>]
    ELSE IF q.tag # "ok" THEN [ok |-> FALSE, earnings |-> <<>>]
    ELSE LET er == IF e.tag = "ok" THEN <<e.val>> ELSE <<>>
         IN  IF c.tag # "ok" THEN [ok |-> FALSE, earnings |-> <<>>]
             ELSE [ok |-> TRUE, earnings |-> er]

Unwrap ==
    /\ pc = "unwrap"
    /\ LET u == Unwrapped(quotes_res, earnings_res, fi, cf)
       IN  IF u.ok
           THEN /\ quotes' = quotes_res.val
                /\ earnings' = u.earnings
                /\ pc' = "header"
                /\ status' = status
           ELSE /\ pc' = "done"
                /\ status' = "err"
                /\ UNCHANGED <<quotes, earnings>>
    /\ UNCHANGED <<quotes_res, earnings_res, fi, cf, returns, range, out>>

\* a slip: the cash-flow table printed before the price analysis
NextPc_CashflowFirst(p) ==
    CASE p = "header" -> "calc_returns"
      [] p = "calc_returns" -> "print_quotes"
      [] p = "print_quotes" -> "blank"
      [] p = "blank" -> "display_plot"
      [] p = "display_plot" -> "cashflow"
      [] p = "cashflow" -> "analysis"
      [] p = "analysis" -> "pct_change"
      [] p = "pct_change" -> "volatility"
      [] p = "volatility" -> "price_range"
      [] p = "price_range" -> "earnings"
      [] p = "earnings" -> "return"
      [] OTHER -> "done"

\* the order of the statements of main, lines 49-96
NextPc(p) ==
    CASE p = "header" -> "calc_returns"
      [] p = "calc_returns" -> "print_quotes"
      [] p = "print_quotes" -> "blank"
      [] p = "blank" -> "display_plot"
      [] p = "display_plot" -> "analysis"
      [] p = "analysis" -> "pct_change"
      [] p = "pct_change" -> "volatility"
      [] p = "volatility" -> "price_range"
      [] p = "price_range" -> "earnings"
      [] p = "earnings" -> "cashflow"
      [] p = "cashflow" -> "return"
      [] OTHER -> "done"

\* a call that writes lines or panics, then control moves to `next`
Step(did, next) ==
    IF did.panic
    THEN /\ pc' = "done"
         /\ status' = "panic"
         /\ out' = out
    ELSE /\ pc' = next
         /\ status' = status
         /\ out' = out \o did.lines

PrintHeader ==
    /\ pc = "header"
    /\ Step(header_line(fi.val[1]), NextPc(pc))
    /\ UNCHANGED <<quotes_res, earnings_res, fi, cf, quotes, earnings, returns, range>>

CalcReturns ==
    /\ pc = "calc_returns"
    /\ returns' = calc_returns(quotes)
    /\ pc' = NextPc(pc)
    /\ UNCHANGED <<quotes_res, earnings_res, fi, cf, quotes, earnings, range, out, status>>

PrintQuotes ==
    /\ pc = "print_quotes"
    /\ Step(print_quotes(quotes, returns), NextPc(pc))
    /\ UNCHANGED <<quotes_res, earnings_res, fi, cf, quotes, earnings, returns, range>>

PrintBlank ==
    /\ pc = "blank"
    /\ Step(Wrote(<<Line("blank", "")>>), NextPc(pc))
    /\ UNCHANGED <<quotes_res, earnings_res, fi, cf, quotes, earnings, returns, range>>

DisplayPlot ==
    /\ pc = "display_plot"
    /\ Step(display_plot(quotes), NextPc(pc))
    /\ UNCHANGED <<quotes_res, earnings_res, fi, cf, quotes, earnings, returns, range>>

PrintAnalysis ==
    /\ pc = "analysis"
    /\ Step(Wrote(<<Line("analysis", "--- Price Analysis ---")>>), NextPc(pc))
    /\ UNCHANGED <<quotes_res, earnings_res, fi, cf, quotes, earnings, returns, range>>

PctChange ==
    /\ pc = "pct_change"
    /\ Step(pct_change(quotes), NextPc(pc))
    /\ UNCHANGED <<quotes_res, earnings_res, fi, cf, quotes, earnings, returns, range>>

Volatility ==
    /\ pc = "volatility"
    /\ Step(volatility(quotes, returns), NextPc(pc))
    /\ UNCHANGED <<quotes_res, earnings_res, fi, cf, quotes, earnings, returns, range>>

PriceRangeLines ==
    /\ pc = "price_range"
    /\ range' = get_price_range(quotes)
    /\ Step(price_range_lines(range'), NextPc(pc))
    /\ UNCHANGED <<quotes_res, earnings_res, fi, cf, quotes, earnings, returns>>

EarningsLine ==
    /\ pc = "earnings"
    /\ Step(earnings_line(earnings), NextPc(pc))
    /\ UNCHANGED <<quotes_res, earnings_res, fi, cf, quotes, earnings, returns, range>>

PrintCashflow ==
    /\ pc = "cashflow"
    /\ Step(print_cashflow(cf.val), NextPc(pc))
    /\ UNCHANGED <<quotes_res, earnings_res, fi, cf, quotes, earnings, returns, range>>

\* line 96: Ok(())
Return ==
    /\ pc = "return"
    /\ pc' = NextPc(pc)
    /\ status' = "ok"
    /\ UNCHANGED <<quotes_res, earnings_res, fi, cf, quotes, earnings, returns, range, out>>

Next ==
    \/ CompleteQuotes
    \/ CompleteEarnings
    \/ CompleteFastInfo
    \/ CompleteCashflow
    \/ Join
    \/ Unwrap
    \/ PrintHeader
    \/ CalcReturns
    \/ PrintQuotes
    \/ PrintBlank
    \/ DisplayPlot
    \/ PrintAnalysis
    \/ PctChange
    \/ Volatility
    \/ PriceRangeLines
    \/ EarningsLine
    \/ PrintCashflow
    \/ Return

Spec == Init /\ [][Next]_vars

----------------------------------------------------------------------------
(* The price-range extractor on its own: any bars, low, high and close free *)

MaxRangeBars == 2

RangeCandles == {Candle(0, c, h, l, c, <<1500>>) : c \in Amounts, h \in Amounts, l \in Amounts}

InitRange ==
    /\ quotes_res = Pending
    /\ earnings_res = Pending
    /\ fi = Pending
    /\ cf = Pending
    /\ pc = "range_call"
    /\ quotes \in {WithTs(s) : s \in SeqsUpTo(RangeCandles, MaxRangeBars)}
    /\ earnings = <<>>
    /\ returns = <<>>
    /\ range = <<>>
    /\ out = <<>>
    /\ status = "running"

CallGetPriceRange ==
    /\ pc = "range_call"
    /\ range' = get_price_range(quotes)
    /\ pc' = "range_returned"
    /\ UNCHANGED <<quotes_res, earnings_res, fi, cf, quotes, earnings, returns, out, status>>

NextRange == CallGetPriceRange

SpecRange == InitRange /\ [][NextRange]_vars

----------------------------------------------------------------------------
(* Vocabulary of the properties *)

Has(sec) == \E i \in 1 .. Len(out) : out[i].sec = sec

TheLine(sec) == out[CHOOSE i \in 1 .. Len(out) : out[i].sec = sec]

AllVolumes(qs) == \A i \in 1 .. Len(qs) : qs[i].volume # <<>>

NonZeroCloses(qs) == \A i \in 1 .. Len(qs) : qs[i].close # 0

FatalOk == quotes_res.tag = "ok" /\ fi.tag = "ok" /\ cf.tag = "ok"

AllOk == FatalOk /\ earnings_res.tag = "ok"

AllComplete ==
    /\ quotes_res.tag # "pending"
    /\ earnings_res.tag # "pending"
    /\ fi.tag # "pending"
    /\ cf.tag # "pending"

Finished == pc = "done"

Aborted == status \in {"err", "panic"}

\* main has executed `let returns = calc_returns(&quotes)`
ReturnsComputed ==
    \/ pc \in {"print_quotes", "blank", "display_plot", "analysis", "pct_change",
               "volatility", "price_range", "earnings", "cashflow", "return"}
    \/ pc = "done" /\ status \in {"ok", "panic"}

Negative(x) == x.k = "ninf" \/ (x.k = "fin" /\ x.n < 0)

Negated(x) ==
    CASE x.k = "inf" -> NEG_INFINITY
      [] x.k = "ninf" -> INFINITY
      [] x.k = "nan" -> NAN
      [] OTHER -> Fin(-x.n, x.d)

\* the report as a function of the four answers alone
ExpectedReport(q, e, f, c) ==
    IF f.tag # "ok" \/ q.tag # "ok" \/ c.tag # "ok"
    THEN [status |-> "err", out |-> <<>>]
    ELSE LET head == header_line(f.val[1]).lines
             table == print_quotes(q.val, calc_returns(q.val))
         IN  IF table.panic THEN [status |-> "panic", out |-> head]
             ELSE [status |-> "ok",
                   out |-> head \o table.lines
                             \o <<Line("blank", "")>>
                             \o display_plot(q.val).lines
                             \o <<Line("analysis", "--- Price Analysis ---")>>
                             \o pct_change(q.val).lines
                             \o volatility(q.val, calc_returns(q.val)).lines
                             \o price_range_lines(get_price_range(q.val)).lines
                             \o earnings_line(IF e.tag = "ok" THEN <<e.val>> ELSE <<>>).lines
                             \o print_cashflow(c.val).lines]

Rank(sec) ==
    CASE sec = "header" -> 1
      [] sec = "quotes" -> 2
      [] sec = "blank" -> 3
      [] sec = "chart" -> 4
      [] sec = "analysis" -> 5
      [] sec = "pct" -> 6
      [] sec = "std" -> 7
      [] sec = "vol" -> 8
      [] sec = "intraday" -> 9
      [] sec = "closing" -> 10
      [] sec = "earnings" -> 11
      [] sec = "cashflow" -> 12
      [] OTHER -> 0

\* the four bounds of a returned range are the extrema the bars give
RangeIsExtrema ==
    LET r == range[1]
        n == Len(quotes)
    IN  /\ \E i \in 1 .. n : r.intraday.low = money_to_f64(quotes[i].low)
        /\ \A i \in 1 .. n : FLe(r.intraday.low, money_to_f64(quotes[i].low))
        /\ \E i \in 1 .. n : r.intraday.high = money_to_f64(quotes[i].high)
        /\ \A i \in 1 .. n : FLe(money_to_f64(quotes[i].high), r.intraday.high)
        /\ \E i \in 1 .. n : r.closing.low = money_to_f64(quotes[i].close)
        /\ \A i \in 1 .. n : FLe(r.closing.low, money_to_f64(quotes[i].close))
        /\ \E i \in 1 .. n : r.closing.high = money_to_f64(quotes[i].close)
        /\ \A i \in 1 .. n : FLe(money_to_f64(quotes[i].close), r.closing.high)

\* the return cell of row i > 1, from returns as main holds it
ExpectedCell(i) ==
    LET v == FMul(returns[i - 1], Hundred)
    IN  IF Negative(v) THEN "-" \o Fmt2(Negated(v)) ELSE " " \o Fmt2(v)

----------------------------------------------------------------------------
(* Properties *)

\* C1: once main has called calc_returns on bars whose closes are all
\* non-zero, returns has max(n-1, 0) elements and its i-th element is the
\* finite value (close[i+1] - close[i]) / close[i]; with zero or one bar it is
\* empty, and the call raises nothing.
C1_Returns ==
    (ReturnsComputed /\ NonZeroCloses(quotes)) =>
        /\ Len(returns) = (IF Len(quotes) >= 1 THEN Len(quotes) - 1 ELSE 0)
        /\ \A i \in 1 .. Len(returns) :
              /\ returns[i].k = "fin"
              /\ returns[i].d > 0
              /\ returns[i].n * quotes[i].close
                   = (quotes[i + 1].close - quotes[i].close) * returns[i].d
        /\ (pc = "print_quotes" => status = "running")

C1_Witness ==
    /\ pc = "print_quotes"
    /\ Len(quotes) = 3
    /\ NonZeroCloses(quotes)
    /\ Len(returns) = 2
    /\ Negative(returns[1])
    /\ FLt(Zero, returns[2])

\* C2 as stated: for every non-empty sequence of bars the result of
\* get_price_range has closing.low <= closing.high and
\* intraday.low <= intraday.high, the four bounds being the minimum low, the
\* maximum high and the minimum and maximum close.
C2_Original ==
    (pc = "range_returned" /\ Len(quotes) > 0) =>
        /\ range # <<>>
        /\ RangeIsExtrema
        /\ FLe(range[1].closing.low, range[1].closing.high)
        /\ FLe(range[1].intraday.low, range[1].intraday.high)

\* C2 amended: the four bounds are those extrema and closing.low <=
\* closing.high for every non-empty sequence; intraday.low <= intraday.high
\* holds exactly when some bar's low is not above some bar's high, so it holds
\* whenever every bar has low <= high and fails when every low is above every
\* high.
C2_Range ==
    (pc = "range_returned" /\ Len(quotes) > 0) =>
        /\ range # <<>>
        /\ RangeIsExtrema
        /\ FLe(range[1].closing.low, range[1].closing.high)
        /\ FLe(range[1].intraday.low, range[1].intraday.high)
             <=> (\E i, j \in 1 .. Len(quotes) : quotes[i].low <= quotes[j].high)
        /\ (\A i \in 1 .. Len(quotes) : quotes[i].low <= quotes[i].high)
             => FLe(range[1].intraday.low, range[1].intraday.high)

C2_Witness ==
    /\ pc = "range_returned"
    /\ Len(quotes) = 2
    /\ \A i \in 1 .. 2 : quotes[i].low <= quotes[i].high
    /\ quotes[1].low < quotes[2].low
    /\ quotes[1].high < quotes[2].high
    /\ quotes[2].close < quotes[1].close
    /\ range[1].intraday.low = money_to_f64(quotes[1].low)
    /\ range[1].intraday.high = money_to_f64(quotes[2].high)
    /\ FLt(range[1].closing.low, range[1].closing.high)

\* C3: when all four requests succeed and every bar has a volume, the run
\* never aborts and ends successfully, whatever the number of bars; the
\* finished report has no percent-change line with fewer than 2
\* bars, has the std-dev and volatility lines exactly with 3 or more bars, and
\* has the two range lines exactly with at least one bar (get_price_range is
\* None only for no bars).
C3_ShortData ==
    (AllOk /\ AllVolumes(quotes_res.val)) =>
        /\ ~Aborted
        /\ Finished =>
              /\ status = "ok"
              /\ (Len(quotes) < 2 => ~Has("pct"))
              /\ (Has("std") <=> Len(quotes) >= 3)
              /\ (Has("vol") <=> Len(quotes) >= 3)
              /\ (Has("intraday") <=> Len(quotes) > 0)
              /\ (Has("closing") <=> Len(quotes) > 0)
              /\ (range = <<>> <=> Len(quotes) = 0)

C3_Witness ==
    /\ Finished
    /\ AllOk
    /\ status = "ok"
    /\ Len(quotes) = 1
    /\ ~Has("pct")
    /\ ~Has("std")
    /\ Has("intraday")

\* C4 as stated: with at least 2 bars and a first close of zero, the finished
\* run has aborted.
C4_Original ==
    (Finished /\ FatalOk /\ Len(quotes_res.val) >= 2 /\ quotes_res.val[1].close = 0)
        => Aborted

\* C4 amended: with at least 2 bars and a first close of zero the division is
\* guarded, not attempted: no percent-change line is ever written, the
\* percent-change step never aborts the run, and when every bar has a volume
\* the run goes on to finish successfully with the rest of the report.
C4_ZeroFirstClose ==
    (FatalOk /\ Len(quotes_res.val) >= 2 /\ quotes_res.val[1].close = 0) =>
        /\ ~Has("pct")
        /\ (Has("analysis") => status # "panic")
        /\ (Finished /\ AllVolumes(quotes_res.val)) =>
              /\ status = "ok"
              /\ Has("analysis")
              /\ Has("std") <=> Len(quotes) >= 3
              /\ Has("intraday")

C4_Witness ==
    /\ Finished
    /\ status = "ok"
    /\ Len(quotes) = 3
    /\ quotes[1].close = 0
    /\ quotes[3].close # 0
    /\ Has("analysis")
    /\ Has("std")
    /\ ~Has("pct")

\* C5: for non-empty bars that all have a volume, print_quotes (called by main
\* with returns = calc_returns(bars)) does not panic and writes one table of a
\* header and exactly one row per bar, in input order; the return cell of the
\* first row is blank, and that of every later row i is returns[i-1]*100 to
\* two decimals, after one space when the value is not negative and bare
\* (starting with its minus sign) when it is negative.
C5_QuoteRows ==
    (ReturnsComputed /\ Len(quotes) > 0 /\ AllVolumes(quotes)) =>
        /\ status # "panic"
        /\ (pc # "print_quotes") =>
              /\ Has("quotes")
              /\ LET rows == TheLine("quotes").rows
                 IN  /\ Len(rows) = Len(quotes) + 1
                     /\ \A i \in 1 .. Len(quotes) :
                           /\ Len(rows[i + 1]) = 7
                           /\ rows[i + 1][1] = date_naive(i)
                           /\ rows[i + 1][6] = FmtAmount(quotes[i].close)
                           /\ rows[i + 1][7] = (IF i = 1 THEN "" ELSE ExpectedCell(i))

C5_Witness ==
    /\ pc = "blank"
    /\ Len(quotes) = 3
    /\ Negative(returns[1])
    /\ returns[2].k = "inf"
    /\ TheLine("quotes").rows[3][7] = "-100.00"
    /\ TheLine("quotes").rows[4][7] = " inf"

\* C6: when the price-history, metadata or cash-flow request has failed,
\* nothing is ever written and the run never succeeds: it ends with main
\* returning the error; whatever is written is written after all four
\* requests completed with those three successful.
C6_FatalFetch ==
    /\ (quotes_res.tag = "err" \/ fi.tag = "err" \/ cf.tag = "err") =>
          /\ out = <<>>
          /\ status # "ok"
          /\ (Finished => status = "err")
    /\ out # <<>> => (FatalOk /\ earnings_res.tag # "pending")

C6_Witness ==
    /\ Finished
    /\ status = "err"
    /\ out = <<>>
    /\ cf.tag = "err"
    /\ fi.tag = "ok"
    /\ fi.val[1].name # <<>>
    /\ quotes_res.tag = "ok"
    /\ Len(quotes_res.val) > 0

\* C7 as stated: when the other three requests succeed and the earnings
\* request fails, the finished run has succeeded.
C7_Original ==
    (Finished /\ FatalOk /\ earnings_res.tag = "err") => status = "ok"

\* C7 amended: when the other three requests succeed, a failed earnings
\* request ends the run exactly as an empty earnings list does (same exit
\* status, same output); the run then succeeds provided every bar has a
\* volume (a missing volume aborts it in both cases); the earnings-date line
\* is in the finished report exactly when the request gave a non-empty list,
\* and shows the list's first entry.
C7_EarningsAbsent ==
    (Finished /\ FatalOk) =>
        /\ earnings_res.tag = "err" =>
              /\ status = ExpectedReport(quotes_res, Ok(<<>>), fi, cf).status
              /\ out = ExpectedReport(quotes_res, Ok(<<>>), fi, cf).out
              /\ ~Has("earnings")
        /\ AllVolumes(quotes_res.val) =>
              /\ status = "ok"
              /\ Has("earnings") <=> (earnings_res.tag = "ok" /\ Len(earnings_res.val) > 0)
              /\ Has("earnings") =>
                    TheLine("earnings").text
                      = "Earnings date: " \o format_date(earnings_res.val[1])
              /\ Has("analysis")
        /\ ~AllVolumes(quotes_res.val) => ~Has("earnings")

C7_Witness ==
    /\ Finished
    /\ FatalOk
    /\ earnings_res.tag = "err"
    /\ status = "ok"
    /\ Len(quotes) = 3
    /\ Has("closing")
    /\ Has("cashflow")
    /\ ~Has("earnings")

\* C8: main leaves the join only when all four requests have completed;
\* while one is pending nothing is consumed or written and the run has not
\* ended (so a request that never completes holds the run for ever), even
\* when one that completed has failed; and the finished run's exit status
\* and output are a function of the four answers, whatever order they came
\* in.
C8_JoinAll ==
    /\ ~AllComplete =>
          /\ pc = "join"
          /\ status = "running"
          /\ out = <<>>
          /\ quotes = <<>>
          /\ earnings = <<>>
    /\ Finished =>
          /\ status = ExpectedReport(quotes_res, earnings_res, fi, cf).status
          /\ out = ExpectedReport(quotes_res, earnings_res, fi, cf).out

C8_Witness ==
    /\ pc = "join"
    /\ quotes_res.tag = "err"
    /\ fi.tag = "ok"
    /\ cf.tag = "ok"
    /\ earnings_res.tag = "pending"
    /\ status = "running"
    /\ out = <<>>

\* C9: the sections are written in the fixed order header, quote table,
\* blank, chart, analysis heading, percent change, std dev, volatility,
\* intraday range, closing range, earnings date, cash-flow table: at every
\* moment what has been written is in that order, each section at most once;
\* a successful run has written the quote table, the blank, the chart and the
\* analysis heading, and the header exactly when the metadata has a name.
C9_SectionOrder ==
    /\ \A i \in 1 .. Len(out) : Rank(out[i].sec) > 0
    /\ \A i, j \in 1 .. Len(out) :
          i < j =>
             /\ Rank(out[i].sec) <= Rank(out[j].sec)
             /\ Rank(out[i].sec) = Rank(out[j].sec) =>
                   (out[i].sec = "cashflow" /\ j = i + 1)
    /\ status = "ok" =>
          /\ Has("quotes")
          /\ Has("blank")
          /\ Has("chart")
          /\ Has("analysis")
          /\ Has("header") <=> fi.val[1].name # <<>>
          /\ Has("cashflow") <=> Len(cf.val) > 0

C9_Witness ==
    /\ status = "ok"
    /\ [i \in 1 .. Len(out) |-> out[i].sec]
         = <<"header", "quotes", "blank", "chart", "analysis", "pct", "std", "vol",
             "intraday", "closing", "earnings", "cashflow", "cashflow">>

\* C10: when the three fatal requests succeed and some bar has no volume,
\* the run ends in a panic raised while the quote table is built: nothing but
\* the header line is ever written; with no bars at all the run never panics.
C10_MissingVolume ==
    /\ (FatalOk /\ ~AllVolumes(quotes_res.val)) =>
          /\ \A i \in 1 .. Len(out) : out[i].sec = "header"
          /\ Len(out) <= 1
          /\ status # "ok"
          /\ (Finished => status = "panic")
          /\ pc \in {"join", "unwrap", "header", "calc_returns", "print_quotes", "done"}
    /\ (quotes_res.tag = "ok" /\ Len(quotes_res.val) = 0) => status # "panic"

C10_Witness ==
    /\ Finished
    /\ status = "panic"
    /\ Len(out) = 1
    /\ out[1].sec = "header"
    /\ Len(quotes) = 3
    /\ quotes[1].volume # <<>>
    /\ quotes[2].volume = <<>>

=============================================================================
